---- MODULE Spec2Model ----
(***************************************************************************)
(* A model of the estimation notebooks of PoliDrone/Estimation:            *)
(*   - the Lidar particle filter (5.gps_denied_navigation): prior          *)
(*     sampling, ray casting, importance weighting, normalisation, the     *)
(*     particle_filter driver;                                             *)
(* Numbers.  The notebooks compute in floating point.  The model keeps     *)
(*   - positions and distances in sub-cell units (Sub units per map cell), *)
(*   - headings in units of 45 degrees (FullTurn units per revolution),    *)
(*   - probabilities in units of 1/One, a product below 1/One being 0      *)
(*     (the finite exponent range of a float: underflow), rounding of the  *)
(*     mantissa being abstracted.                                          *)
(***************************************************************************)
EXTENDS Integers, Sequences, FiniteSets, TLC

VARIABLES ray, prior, fusion, pf, sensor, kf, flow

vars == <<ray, prior, fusion, pf, sensor, kf, flow>>

(***************************************************************************)
(* Bounds of the model.                                                    *)
(***************************************************************************)
\* side of the square occupancy maps used for ray casting
RayMapSize == 3
\* largest sensor max_range, in map cells
MaxRange == 3

(***************************************************************************)
(* Units.                                                                  *)
(***************************************************************************)
\* sub-cell resolution of a position or distance: Sub units are one map cell
Sub == 2 * 5
\* denominator of the cosine and sine tables
TrigDen == 10 * 100
\* headings are multiples of 45 degrees: FullTurn of them are 2*pi
FullTurn == 2 * 4

(***************************************************************************)
(* Arithmetic helpers.                                                     *)
(***************************************************************************)
Abs(n) == IF n < 0 THEN -n ELSE n

\* Python's int() of the float n/d (d > 0): truncation towards zero
Trunc(n, d) == IF n >= 0 THEN n \div d ELSE -((-n) \div d)

\* floor of the square root
ISqrt(n) == CHOOSE r \in 0..n : r * r <= n /\ (r + 1) * (r + 1) > n

\* the sum of the absolute differences instead of the Euclidean norm
NormTaxicab(dx, dy) == Abs(dx) + Abs(dy)

\* np.linalg.norm of the difference vector (dx, dy), in the units of dx, dy
Norm(dx, dy) == ISqrt(dx * dx + dy * dy)

\* np.cos and np.sin at a heading of a times 45 degrees, times TrigDen
\* (np.cos and np.sin are periodic: a is reduced to one revolution)
Cos(a) == <<1000, 707, 0, -707, -1000, -707, 0, 707>>[(a % FullTurn) + 1]
Sin(a) == <<0, 707, 1000, 707, 0, -707, -1000, -707>>[(a % FullTurn) + 1]

(***************************************************************************)
(* Occupancy maps: [w, h, occ], occ the set of obstacle cells <<cx, cy>>.  *)
(* grid_map[cy, cx] == 1 iff <<cx, cy>> \in occ; shape = (h, w).           *)
(***************************************************************************)
Cells(m) == (0..(m.w - 1)) \X (0..(m.h - 1))

\* utils.inbounds(grid_map, x, y)
inbounds(m, cx, cy) == cx >= 0 /\ cx < m.w /\ cy >= 0 /\ cy < m.h

\* utils.valid_location(grid_map, x, y): in bounds and not an obstacle
valid_location(m, cx, cy) == inbounds(m, cx, cy) /\ <<cx, cy>> \notin m.occ

(***************************************************************************)
(* bresenham(x0, y0, x1, y1): the cells of the rasterised line, both ends  *)
(* included, as the generator of the bresenham package yields them.        *)
(***************************************************************************)
RECURSIVE BresenhamFrom(_, _, _, _, _, _, _)
BresenhamFrom(i, y, D, dx, dy, o, t) ==
    IF i > dx THEN <<>>
    ELSE <<  <<o[1] + i * t[1] + y * t[3], o[2] + i * t[2] + y * t[4]>>  >>
         \o BresenhamFrom(i + 1,
                          IF D >= 0 THEN y + 1 ELSE y,
                          (IF D >= 0 THEN D - 2 * dx ELSE D) + 2 * dy,
                          dx, dy, o, t)

bresenham(x0, y0, x1, y1) ==
    LET xsign == IF x1 - x0 > 0 THEN 1 ELSE -1
        ysign == IF y1 - y0 > 0 THEN 1 ELSE -1
        adx == Abs(x1 - x0)
        ady == Abs(y1 - y0)
        dx == IF adx > ady THEN adx ELSE ady
        dy == IF adx > ady THEN ady ELSE adx
        \* <<xx, xy, yx, yy>>
        t == IF adx > ady THEN <<xsign, 0, 0, ysign>> ELSE <<0, ysign, xsign, 0>>
    IN  BresenhamFrom(0, 0, 2 * dy - dx, dx, dy, <<x0, y0>>, t)

(***************************************************************************)
(* get_distance(grid_map, sensor, x, y, angle).  x, y are in Sub units,    *)
(* angle in 0..FullTurn-1, max_range in cells.  The result is [dist, loc,  *)
(* hit]: dist in Sub units; loc the obstacle cell, or the end point        *)
(* [x2, y2] in Sub units when nothing was hit; hit tells the two apart.    *)
(***************************************************************************)
\* int(x2) and int(y2), the end cell of the walk
EndCellX(max_range, x, angle) == Trunc(x * TrigDen + max_range * Sub * Cos(angle), Sub * TrigDen)
EndCellY(max_range, y, angle) == Trunc(y * TrigDen + max_range * Sub * Sin(angle), Sub * TrigDen)

\* the float end point (x2, y2), to the sub-cell resolution of the model
EndPoint(max_range, x, y, angle) ==
    << Trunc(x * TrigDen + max_range * Sub * Cos(angle), TrigDen),
       Trunc(y * TrigDen + max_range * Sub * Sin(angle), TrigDen) >>

RayCells(max_range, x, y, angle) ==
    bresenham(Trunc(x, Sub), Trunc(y, Sub),
              EndCellX(max_range, x, angle), EndCellY(max_range, y, angle))

\* grid_map[cy, cx] as numpy indexes it: a negative index counts from the end,
\* an index out of range raises IndexError
GridAt(m, cx, cy) ==
    IF cx < -m.w \/ cx >= m.w \/ cy < -m.h \/ cy >= m.h THEN "IndexError"
    ELSE IF <<cx % m.w, cy % m.h>> \in m.occ THEN "1" ELSE "0"

\* WalkCells without its break: the walk goes on after an obstacle cell and the
\* last one met is reported
RECURSIVE WalkLast(_, _, _, _, _, _, _)
WalkLast(m, x, y, end, cells, i, best) ==
    IF i > Len(cells) THEN best
    ELSE LET c == cells[i]
         IN  IF ~inbounds(m, c[1], c[2]) THEN best
             ELSE IF GridAt(m, c[1], c[2]) = "1"
                  THEN WalkLast(m, x, y, end, cells, i + 1,
                                [dist |-> Norm(x - c[1] * Sub, y - c[2] * Sub),
                                 loc |-> c, hit |-> TRUE, err |-> "none"])
                  ELSE WalkLast(m, x, y, end, cells, i + 1, best)

WalkCellsNoBreak(m, max_range, x, y, end, cells, i) ==
    WalkLast(m, x, y, end, cells, i,
             [dist |-> max_range * Sub, loc |-> end, hit |-> FALSE, err |-> "none"])

\* WalkCells without its inbounds test: the grid is indexed at every cell
RECURSIVE WalkCellsNoBounds(_, _, _, _, _, _, _)
WalkCellsNoBounds(m, max_range, x, y, end, cells, i) ==
    LET miss == [dist |-> max_range * Sub, loc |-> end, hit |-> FALSE, err |-> "none"]
    IN  IF i > Len(cells) THEN miss
        ELSE LET c == cells[i]
             IN  IF GridAt(m, c[1], c[2]) = "IndexError"
                 THEN [miss EXCEPT !.err = "IndexError"]
                 ELSE IF GridAt(m, c[1], c[2]) = "1"
                      THEN [dist |-> Norm(x - c[1] * Sub, y - c[2] * Sub),
                            loc |-> c, hit |-> TRUE, err |-> "none"]
                      ELSE WalkCellsNoBounds(m, max_range, x, y, end, cells, i + 1)

\* the for loop over cells, from the i-th cell on; end is [x2, y2]
RECURSIVE WalkCells(_, _, _, _, _, _, _)
WalkCells(m, max_range, x, y, end, cells, i) ==
    LET miss == [dist |-> max_range * Sub, loc |-> end, hit |-> FALSE, err |-> "none"]
    IN  IF i > Len(cells) THEN miss
        ELSE LET c == cells[i]
             IN  IF ~inbounds(m, c[1], c[2]) THEN miss
                 ELSE IF GridAt(m, c[1], c[2]) = "IndexError"
                      THEN [miss EXCEPT !.err = "IndexError"]
                 ELSE IF GridAt(m, c[1], c[2]) = "1"
                      THEN [dist |-> Norm(x - c[1] * Sub, y - c[2] * Sub),
                            loc |-> c, hit |-> TRUE, err |-> "none"]
                      ELSE WalkCells(m, max_range, x, y, end, cells, i + 1)

get_distance(m, max_range, x, y, angle) ==
    WalkCells(m, max_range, x, y, EndPoint(max_range, x, y, angle),
              RayCells(max_range, x, y, angle), 1)

(***************************************************************************)
(* shoot_rays(grid_map, sensor, state, k): state = <<x, y, theta>>.        *)
(***************************************************************************)
\* bearing * (360 / k) degrees, in heading units (k divides FullTurn)
Bearing(i, k) == i * (FullTurn \div k)

\* RayAngle without the reduction modulo 2*pi
RayAngleNoWrap(theta, i, k) == theta + Bearing(i, k)

\* (theta + np.radians(bearing)) % (2 * np.pi)
RayAngle(theta, i, k) == (theta + Bearing(i, k)) % FullTurn

\* the for loop over range(k), from bearing index i on: the angle passed to
\* get_distance and the distance appended to expected_distances
RECURSIVE ShootFrom(_, _, _, _, _)
ShootFrom(m, max_range, state, k, i) ==
    IF i >= k THEN <<>>
    ELSE LET angle == RayAngle(state[3], i, k)
         IN  << [angle |-> angle,
                 dist |-> get_distance(m, max_range, state[1], state[2], angle).dist] >>
             \o ShootFrom(m, max_range, state, k, i + 1)

\* the loop of shoot_rays: per ray, the angle it was cast at and its distance
shoot_rays(m, max_range, state, k) == ShootFrom(m, max_range, state, k, 0)

\* the list shoot_rays returns, expected_distances
Dists(rays) == [j \in 1..Len(rays) |-> rays[j].dist]

(***************************************************************************)
(* Ray casting as a state machine: ray holds the last call, its arguments  *)
(* and its result.                                                         *)
(***************************************************************************)
Idle == [op |-> "idle"]

\* the subsets of S with at most n elements
UpTo(S, n) == {T \in SUBSET S : Cardinality(T) <= n}

SquareMap(n, occ) == [w |-> n, h |-> n, occ |-> occ]

\* maps with at most two obstacle cells (two, so that a ray can meet a second one)
RayMaps == {SquareMap(RayMapSize, o) : o \in UpTo((0..(RayMapSize - 1)) \X (0..(RayMapSize - 1)), 2)}

\* maps with at most one obstacle cell
RayMaps1 == {m \in RayMaps : Cardinality(m.occ) <= 1}

\* coordinates, in Sub units: on a cell's corner or inside the cell, from one
\* cell outside the map on either side
RayCoords == {c * Sub + f : c \in (-1)..RayMapSize, f \in {0, Sub - 1}}

\* headings, in units of 45 degrees: negative and beyond one revolution too
RayThetas == (-2)..(FullTurn + 1)

\* numbers of rays: the divisors of FullTurn
RayCounts == {k \in 1..FullTurn : FullTurn % k = 0}

\* the check cell of Sensor-Fusion-Solution: max_sensor_range and ground_truth_state
ScenarioMaxRange == 100
ScenarioX == 385
ScenarioY == 450
\* the obstacle cell the notebook reports, and a second one further along the ray
ScenarioMap == [w |-> 1000, h |-> 1000, occ |-> {<<435, 500>>, <<440, 505>>}]

GetDistanceCall(m, max_range, x, y, angle) ==
    ray' = [op |-> "get_distance", m |-> m, max_range |-> max_range,
            x |-> x, y |-> y, angle |-> angle,
            out |-> get_distance(m, max_range, x, y, angle)]

ShootRaysCall(m, max_range, state, k) ==
    \E rays \in {shoot_rays(m, max_range, state, k)} :
        ray' = [op |-> "shoot_rays", m |-> m, max_range |-> max_range,
                state |-> state, k |-> k,
                angles |-> [j \in 1..Len(rays) |-> rays[j].angle],
                out |-> Dists(rays)]

RayGetDistance ==
    /\ ray = Idle
    /\ \E m \in RayMaps, max_range \in 1..MaxRange, x \in RayCoords, y \in {0, Sub + 5, (RayMapSize - 1) * Sub},
          angle \in 0..(FullTurn - 1) :
          GetDistanceCall(m, max_range, x, y, angle)
    /\ UNCHANGED <<prior, fusion, pf, sensor, kf, flow>>

RayScenario ==
    /\ ray = Idle
    /\ GetDistanceCall(ScenarioMap, ScenarioMaxRange, ScenarioX * Sub, ScenarioY * Sub, 1)
    /\ UNCHANGED <<prior, fusion, pf, sensor, kf, flow>>

RayShootRays ==
    /\ ray = Idle
    /\ \E m \in RayMaps1, max_range \in 1..MaxRange, x \in RayCoords, y \in {Sub + 5},
          theta \in RayThetas, k \in RayCounts :
          ShootRaysCall(m, max_range, <<x, y, theta>>, k)
    /\ UNCHANGED <<prior, fusion, pf, sensor, kf, flow>>

RayInit == ray = Idle /\ prior = Idle /\ fusion = Idle /\ pf = Idle /\ sensor = Idle /\ kf = Idle /\ flow = Idle

RayNext == RayGetDistance \/ RayScenario \/ RayShootRays

SpecRay == RayInit /\ [][RayNext]_vars

(***************************************************************************)
(* sample_from_prior(grid_map, N, state): the rejection-sampling loop.     *)
(* prior = [pc, grid, grid_map, N, state, samples, spin]:                  *)
(*   grid      the notebook's global map, whose shape bounds the draws,    *)
(*   grid_map  the map passed as argument, against which a draw is tested, *)
(*   state     the seed heading (state[2]), or None,                       *)
(*   samples   the accepted particles <<x, y, theta>>, x and y in Sub      *)
(*             units, theta in units of 45 degrees,                        *)
(*   spin      the parity of the number of iterations made.                *)
(***************************************************************************)
\* side of the square maps passed to sample_from_prior
PriorMapSize == 2
\* largest number N of particles asked for
MaxN == 2

\* state=None; a seed state is the tuple of its heading, <<state[2]>>
None == <<>>

\* the obstacle sets of the maps passed: none, every cell, every cell but the
\* last, the first cell only
PriorMaps ==
    LET all == (0..(PriorMapSize - 1)) \X (0..(PriorMapSize - 1))
    IN  {SquareMap(PriorMapSize, o) :
            o \in {{}, all, all \ {<<PriorMapSize - 1, PriorMapSize - 1>>}, {<<0, 0>>}}}

\* the global grid: the map passed itself, or a free map one cell smaller or larger
PriorGrids(m) == {m, SquareMap(PriorMapSize - 1, {}), SquareMap(PriorMapSize + 1, {})}

\* np.random.uniform(0, grid.shape[1]) and (0, grid.shape[0]) falling in cell c
\* of the global grid: a point inside the cell
DrawnX(c) == c[1] * Sub + (Sub - 3)
DrawnY(c) == c[2] * Sub + 1

\* np.random.uniform(-np.pi, np.pi), or np.random.normal(state[2], np.radians(0.5)):
\* half a degree is below the heading resolution
DrawnThetas(state) == IF state = None THEN {-(FullTurn \div 2), FullTurn \div 2 - 1} ELSE {state[1]}

\* the test of a draw against the global grid instead of grid_map
AcceptsOnGrid(grid, grid_map, x, y) == valid_location(grid, Trunc(x, Sub), Trunc(y, Sub))

\* the test inverted
AcceptsInvalid(grid, grid_map, x, y) == ~valid_location(grid_map, Trunc(x, Sub), Trunc(y, Sub))

\* if valid_location(grid_map, int(x), int(y))
Accepts(grid, grid_map, x, y) == valid_location(grid_map, Trunc(x, Sub), Trunc(y, Sub))

\* one iteration of the while loop, the draw falling in cell c of the global grid
PriorDraw(c) ==
    /\ prior.pc = "loop"
    /\ Len(prior.samples) < prior.N
    /\ c \in Cells(prior.grid)
    /\ \E theta \in DrawnThetas(prior.state) :
          prior' = [prior EXCEPT
                      !.spin = 1 - @,
                      !.samples = IF Accepts(prior.grid, prior.grid_map, DrawnX(c), DrawnY(c))
                                  THEN Append(@, <<DrawnX(c), DrawnY(c), theta>>)
                                  ELSE @]
    /\ UNCHANGED <<ray, fusion, pf, sensor, kf, flow>>

\* the while condition fails: return np.array(samples)
PriorReturn ==
    /\ prior.pc = "loop"
    /\ ~(Len(prior.samples) < prior.N)
    /\ prior' = [prior EXCEPT !.pc = "returned"]
    /\ UNCHANGED <<ray, fusion, pf, sensor, kf, flow>>

\* every cell a draw can fall in, whatever the global grid
PriorCells == (0..PriorMapSize) \X (0..PriorMapSize)

PriorInit ==
    /\ \E m \in PriorMaps, N \in 0..MaxN, state \in {None, <<1>>} : \E g \in PriorGrids(m) :
          prior = [pc |-> "loop", grid |-> g, grid_map |-> m, N |-> N, state |-> state,
                   samples |-> <<>>, spin |-> 0]
    /\ ray = Idle /\ fusion = Idle /\ pf = Idle /\ sensor = Idle /\ kf = Idle /\ flow = Idle

PriorNext == (\E c \in PriorCells : PriorDraw(c)) \/ PriorReturn

SpecPrior == PriorInit /\ [][PriorNext]_vars

\* the loop keeps running while it can
SpecPriorFair == SpecPrior /\ WF_vars(PriorNext)

(***************************************************************************)
(* The Lidar sensor and the weighting of particles.  A probability (or a   *)
(* density, per cell of distance) p is the integer p * One; a product is   *)
(* truncated to that resolution, so that a product below 1/One is 0 as a   *)
(* float product below the smallest positive float is.                     *)
(***************************************************************************)
One == 100 * 100

\* stats.norm.pdf(d / Sub) * One at d = 0, 1, 2, ... (Sub = 10, One = 10000)
NormPdfTable ==
    << 3989, 3970, 3910, 3814, 3683, 3521, 3332, 3123, 2897, 2661,
       2420, 2179, 1942, 1714, 1497, 1295, 1109, 940, 790, 656,
       540, 440, 355, 283, 224, 175, 136, 104, 79, 60,
       44, 33, 24, 17, 12, 9, 6, 4, 3, 2, 1, 1, 1 >>

\* a likelihood that does not fall with the distance to the expected value
NormPdfFlat(d) == NormPdfTable[1]

\* stats.norm.pdf(measured_dist, loc=expected_dist), d = measured - expected
NormPdf(d) == IF Abs(d) < Len(NormPdfTable) THEN NormPdfTable[Abs(d) + 1] ELSE 0

\* a float product
FMul(a, b) == (a * b) \div One

\* lookup_prob with the random term a density over [0, max_range]: nothing
\* outside that interval
LookupUniformInRange(max_range, expected_dist, measured_dist) ==
    LET norm_prob == (95 * NormPdf(measured_dist - expected_dist)) \div 100
        random_prob == IF 0 <= measured_dist /\ measured_dist <= max_range * Sub
                       THEN (3 * One) \div (100 * max_range) ELSE 0
        failure_prob == IF measured_dist = max_range * Sub THEN (2 * One) \div 100 ELSE 0
    IN  norm_prob + random_prob + failure_prob

\* lookup_prob without the test of measured_dist against max_range
LookupNoFailure(max_range, expected_dist, measured_dist) ==
    (95 * NormPdf(measured_dist - expected_dist)) \div 100 + (3 * One) \div (100 * max_range)

\* lookup_prob without the random term
LookupNoRandom(max_range, expected_dist, measured_dist) ==
    LET norm_prob == (95 * NormPdf(measured_dist - expected_dist)) \div 100
        failure_prob == IF measured_dist = max_range * Sub THEN (2 * One) \div 100 ELSE 0
    IN  norm_prob + failure_prob

\* LidarSensor.lookup_prob(expected_dist, measured_dist)
lookup_prob(max_range, expected_dist, measured_dist) ==
    LET norm_prob == (95 * NormPdf(measured_dist - expected_dist)) \div 100
        random_prob == (3 * One) \div (100 * max_range)
        failure_prob == IF measured_dist = max_range * Sub THEN (2 * One) \div 100 ELSE 0
    IN  norm_prob + random_prob + failure_prob

\* LidarSensor._hit_measure: np.random.normal(expected_dist), no noise or one
\* standard deviation of it
HitReadings(expected_dist) == {expected_dist, expected_dist + Sub}

\* LidarSensor._random_measure: np.random.randint(0, max_range + 1), the
\* smallest, the middle and the largest of the integers it can draw
RandomReadings(max_range) == {0, (max_range \div 2) * Sub, max_range * Sub}

\* LidarSensor._failure_measure
FailureReading(max_range) == max_range * Sub

\* LidarSensor.measure(expected_dist): the readings it can return
measure(max_range, expected_dist) ==
    HitReadings(expected_dist) \cup RandomReadings(max_range) \cup {FailureReading(max_range)}

\* the for loop of sense over dists: the measurement vectors it can build
RECURSIVE MeasureAll(_, _)
MeasureAll(max_range, dists) ==
    IF dists = <<>> THEN {<<>>}
    ELSE {<<md>> \o rest : md \in measure(max_range, Head(dists)),
                           rest \in MeasureAll(max_range, Tail(dists))}

\* sense(grid, sensor, ground_truth_state, rays): the measurement vectors it
\* can return
sense(m, max_range, ground_truth_state, rays) ==
    MeasureAll(max_range, Dists(shoot_rays(m, max_range, ground_truth_state, rays)))

\* the for loop of importance over zip(expected_distances, measured_distances)
RECURSIVE ImportanceFrom(_, _, _, _, _)
ImportanceFrom(max_range, expected, measured, i, weight) ==
    IF i > Len(expected) \/ i > Len(measured) THEN weight
    ELSE ImportanceFrom(max_range, expected, measured, i + 1,
                        FMul(weight, lookup_prob(max_range, expected[i], measured[i])))

\* importance with the i-th expected distance paired with the i-th measured
\* distance counted from the end
ImportanceMisaligned(m, max_range, state, measured_distances) ==
    ImportanceFrom(max_range,
                   Dists(shoot_rays(m, max_range, state, Len(measured_distances))),
                   [j \in 1..Len(measured_distances) |->
                       measured_distances[Len(measured_distances) + 1 - j]],
                   1, One)

\* importance(grid_map, sensor, state, measured_distances)
importance(m, max_range, state, measured_distances) ==
    ImportanceFrom(max_range,
                   Dists(shoot_rays(m, max_range, state, Len(measured_distances))),
                   measured_distances, 1, One)

\* np.sum
RECURSIVE SumSeq(_)
SumSeq(q) == IF q = <<>> THEN 0 ELSE q[1] + SumSeq(Tail(q))

\* the largest entry (np.max), 0 for an empty array
RECURSIVE MaxSeq(_)
MaxSeq(q) == IF q = <<>> THEN 0
             ELSE IF q[1] > MaxSeq(Tail(q)) THEN q[1] ELSE MaxSeq(Tail(q))

\* weights /= d, entry by entry: the quotient w / d is kept as the fraction
\* <<w, d>>; 0 / 0 is NaN and w / 0 is inf, which numpy returns with a warning
DivideBy(weights, d) == [i \in 1..Len(weights) |-> <<weights[i], d>>]

IsNaN(f) == f[2] = 0 /\ f[1] = 0
IsInf(f) == f[2] = 0 /\ f[1] /= 0

\* the normalisation by the largest weight instead of the sum
NormalizeByMax(weights) == DivideBy(weights, MaxSeq(weights))

\* weights /= np.sum(weights)
Normalize(weights) == DivideBy(weights, SumSeq(weights))

\* the for loop over samples with the weight of a sample carried into the
\* weight of the next one
ImportancesCarried(m, max_range, samples, measured_distances) ==
    [i \in 1..Len(samples) |->
        IF i = 1 THEN importance(m, max_range, samples[1], measured_distances)
        ELSE FMul(importance(m, max_range, samples[i], measured_distances),
                  importance(m, max_range, samples[i - 1], measured_distances))]

\* the unnormalised weights of sensor_fusion: the for loop over samples
Importances(m, max_range, samples, measured_distances) ==
    [i \in 1..Len(samples) |-> importance(m, max_range, samples[i], measured_distances)]

\* sensor_fusion(grid_map, sensor, samples, measured_distances): the weights
\* returned and, as raised, the exception it ends with ("none": it returns)
sensor_fusion(m, max_range, samples, measured_distances) ==
    [weights |-> Normalize(Importances(m, max_range, samples, measured_distances)),
     raised |-> "none"]

(***************************************************************************)
(* One weighting step: sense from the ground truth, then sensor_fusion on  *)
(* a set of samples.                                                       *)
(* fusion = [pc, m, max_range, gt, rays, measured, samples, out]           *)
(***************************************************************************)
\* side of the square maps of the weighting step
FusionMapSize == 3
\* the sensor's max_range, in cells
FusionRange == 6
\* largest number of samples weighted
FusionN == 2

\* a corridor: free, closed at one end, closed at both ends of the middle row
FusionMaps == {SquareMap(FusionMapSize, o) : o \in {{}, {<<0, 1>>}, {<<0, 1>>, <<2, 1>>}}}

\* the centre of cell <<cx, cy>>, heading theta
CellCentre(cx, cy, theta) == <<cx * Sub + Sub \div 2, cy * Sub + Sub \div 2, theta>>

\* the ground truth stands in the middle of the corridor
GroundTruths == {CellCentre(1, 1, 0), CellCentre(1, 1, 2)}

\* the particles: in the free first row, and in the corridor
Particles == {CellCentre(1, 0, 0), CellCentre(1, 1, 0), CellCentre(1, 1, 2)}

\* the lists of at most n elements of S
RECURSIVE SeqsUpTo(_, _)
SeqsUpTo(S, n) ==
    IF n = 0 THEN {<<>>}
    ELSE LET shorter == SeqsUpTo(S, n - 1)
         IN  shorter \cup {Append(q, e) : q \in {r \in shorter : Len(r) = n - 1}, e \in S}

FusionSense ==
    /\ fusion.pc = "start"
    /\ \E md \in sense(fusion.m, fusion.max_range, fusion.gt, fusion.rays) :
          fusion' = [fusion EXCEPT !.pc = "sensed", !.measured = md]
    /\ UNCHANGED <<ray, prior, pf, sensor, kf, flow>>

FusionFuse ==
    /\ fusion.pc = "sensed"
    /\ \E samples \in SeqsUpTo(Particles, FusionN) :
          \E out \in {sensor_fusion(fusion.m, fusion.max_range, samples, fusion.measured)} :
              fusion' = [fusion EXCEPT !.pc = "fused", !.samples = samples, !.out = out]
    /\ UNCHANGED <<ray, prior, pf, sensor, kf, flow>>

FusionInit ==
    /\ ray = Idle /\ prior = Idle /\ pf = Idle /\ sensor = Idle /\ kf = Idle /\ flow = Idle
    /\ \E m \in FusionMaps, gt \in GroundTruths, rays \in 0..2 :
          fusion = [pc |-> "start", m |-> m, max_range |-> FusionRange, gt |-> gt,
                    rays |-> rays, measured |-> <<>>, samples |-> <<>>,
                    out |-> [weights |-> <<>>, raised |-> "none"]]

FusionNext == FusionSense \/ FusionFuse

SpecFusion == FusionInit /\ [][FusionNext]_vars

(***************************************************************************)
(* particle_filter as the notebook defines it: it copies its arguments and *)
(* returns them, the loop being left to do.                                *)
(* pf = [pc, samples, ground_truth_state, n_timesteps, rays, out]          *)
(***************************************************************************)
\* largest number of particles of a run
CycleN == 2
\* largest n_timesteps of a run
MaxSteps == 2

\* particle_filter(grid, sensor, ground_truth_state, samples, n_timesteps, rays):
\* the pair it returns and, as steps, the calls it has made on the way
particle_filter(m, max_range, ground_truth_state, samples, n_timesteps, rays) ==
    [samples |-> samples, ground_truth_state |-> ground_truth_state, steps |-> <<>>]

\* the calls of n cycles of the pseudocode, with the measurement taken from
\* the propagated ground truth
RECURSIVE CycleSteps(_)
CycleSteps(n) ==
    IF n = 0 THEN <<>>
    ELSE CycleSteps(n - 1) \o <<"simulate", "sense", "sensor_fusion", "resample">>

\* the call with the ground truth moved in the caller's own array
PFCallInPlace ==
    /\ pf.pc = "called"
    /\ pf' = [pf EXCEPT !.pc = "returned",
                        !.ground_truth_state = [@ EXCEPT ![1] = @ + Sub],
                        !.out = particle_filter(pf.m, pf.max_range, pf.ground_truth_state,
                                                pf.samples, pf.n_timesteps, pf.rays)]
    /\ UNCHANGED <<ray, prior, fusion, sensor, kf, flow>>

PFCall ==
    /\ pf.pc = "called"
    /\ pf' = [pf EXCEPT !.pc = "returned",
                        !.out = particle_filter(pf.m, pf.max_range, pf.ground_truth_state,
                                                pf.samples, pf.n_timesteps, pf.rays)]
    /\ UNCHANGED <<ray, prior, fusion, sensor, kf, flow>>

PFInit ==
    /\ ray = Idle /\ prior = Idle /\ fusion = Idle /\ sensor = Idle /\ kf = Idle /\ flow = Idle
    /\ \E m \in FusionMaps, gt \in GroundTruths, samples \in SeqsUpTo(Particles, CycleN),
          n_timesteps \in 0..MaxSteps, rays \in RayCounts :
          pf = [pc |-> "called", m |-> m, max_range |-> FusionRange,
                ground_truth_state |-> gt, samples |-> samples,
                n_timesteps |-> n_timesteps, rays |-> rays,
                out |-> [samples |-> <<>>, ground_truth_state |-> <<>>, steps |-> <<>>]]

PFNext == PFCall

SpecPF == PFInit /\ [][PFNext]_vars

(***************************************************************************)
(* The cycle of the pseudocode: propagate with simulate, weight with sense *)
(* and sensor_fusion, resample.  resample is not defined by the notebooks; *)
(* it is the draw of N indices with replacement among the particles of     *)
(* positive weight.                                                        *)
(* pf = [pc, m, max_range, rays, n_timesteps, t, N, samples, gt, weights,  *)
(*       pool], pool being the particles handed to resample.               *)
(***************************************************************************)
\* the default speed v of simulate, in cells per unit of time
DefaultV == 5

\* the noise w of simulate: none, or half a standard deviation on x and y;
\* the noise on theta is below the heading resolution
SimNoise == {<<0, 0, 0>>, <<Sub \div 2, -(Sub \div 2), 0>>}

\* the noise of the N calls of simulate of one step: on no particle, on every
\* particle, on the first one only
StepNoise(N) ==
    LET none == <<0, 0, 0>>
        some == <<Sub \div 2, -(Sub \div 2), 0>>
    IN  {[i \in 1..N |-> none], [i \in 1..N |-> some],
         [i \in 1..N |-> IF i = 1 THEN some ELSE none]}

\* simulate(state, angle=0, v, dt) with the noise w drawn
simulate(state, v, dt, w) ==
    << state[1] + Trunc(v * Sub * Cos(state[3]) * dt, TrigDen) + w[1],
       state[2] + Trunc(v * Sub * Sin(state[3]) * dt, TrigDen) + w[2],
       state[3] + w[3] >>

\* a drawn particle moved by one unit, as a roughening step would
ResampleRoughened(particles, weights) ==
    {[j \in 1..Len(particles) |-> <<particles[idx[j]][1] + 1, particles[idx[j]][2],
                                    particles[idx[j]][3]>>] :
        idx \in [1..Len(particles) -> {i \in 1..Len(particles) : weights[i][1] > 0}]}

\* resample(particles, weights): the particle sets it can return
resample(particles, weights) ==
    {[j \in 1..Len(particles) |-> particles[idx[j]]] :
        idx \in [1..Len(particles) -> {i \in 1..Len(particles) : weights[i][1] > 0}]}

\* the maps of a run are long enough for MaxSteps steps at the default speed
CycleMapSize == DefaultV * (MaxSteps + 1) + 2

\* the map of a run: free but for a wall cell in the second row, next to
\* where MaxSteps steps take the ground truth
CycleMap == SquareMap(CycleMapSize, {<<DefaultV * MaxSteps + 2, 1>>})

\* the i-th particle a run starts from: in the i-th row, heading along it
StartParticle(i) == CellCentre(1, i, 0)

CyclePropagate ==
    /\ pf.pc = "propagate"
    /\ pf.t < pf.n_timesteps
    /\ \E wg \in SimNoise, ws \in StepNoise(pf.N) :
          pf' = [pf EXCEPT !.pc = "weight",
                           !.gt = simulate(pf.gt, DefaultV, 1, wg),
                           !.samples = [i \in 1..pf.N |->
                                           simulate(pf.samples[i], DefaultV, 1, ws[i])],
                           !.pool = <<>>]
    /\ UNCHANGED <<ray, prior, fusion, sensor, kf, flow>>

CycleWeight ==
    /\ pf.pc = "weight"
    /\ \E md \in sense(pf.m, pf.max_range, pf.gt, pf.rays) :
          \E out \in {sensor_fusion(pf.m, pf.max_range, pf.samples, md)} :
              pf' = [pf EXCEPT !.pc = IF \E i \in 1..pf.N : out.weights[i][1] > 0
                                      THEN "resample" ELSE "degenerate",
                               !.weights = out.weights]
    /\ UNCHANGED <<ray, prior, fusion, sensor, kf, flow>>

CycleResample ==
    /\ pf.pc = "resample"
    /\ \E new \in resample(pf.samples, pf.weights) :
          pf' = [pf EXCEPT !.pc = "propagate", !.t = pf.t + 1,
                           !.samples = new, !.pool = pf.samples, !.weights = <<>>]
    /\ UNCHANGED <<ray, prior, fusion, sensor, kf, flow>>

CycleReturn ==
    /\ pf.pc = "propagate"
    /\ pf.t = pf.n_timesteps
    /\ pf' = [pf EXCEPT !.pc = "returned"]
    /\ UNCHANGED <<ray, prior, fusion, sensor, kf, flow>>

CycleInit ==
    /\ ray = Idle /\ prior = Idle /\ fusion = Idle /\ sensor = Idle /\ kf = Idle /\ flow = Idle
    /\ \E N \in 1..CycleN, n_timesteps \in 0..MaxSteps, rays \in {1, 2} :
          pf = [pc |-> "propagate", m |-> CycleMap, max_range |-> FusionRange, rays |-> rays,
                n_timesteps |-> n_timesteps, t |-> 0, N |-> N,
                samples |-> [i \in 1..N |-> StartParticle(i)],
                gt |-> StartParticle(1), weights |-> <<>>, pool |-> <<>>]

CycleNext == CyclePropagate \/ CycleWeight \/ CycleResample \/ CycleReturn

SpecCycle == CycleInit /\ [][CycleNext]_vars

(***************************************************************************)
(* The Lidar sensor on its own: one call of measure or of lookup_prob.     *)
(* sensor = [op, max_range, expected, branch, reading, prob]               *)
(***************************************************************************)
\* largest max_range of the sensors called on their own, in cells
SensorRange == 3

\* p = np.random.rand(), in hundredths: p stands for the draws of
\* [p / 100, (p + 1) / 100)
PDraws == 0..99

\* LidarSensor.measure: the branch taken on the draw p
MeasureBranch(p) == IF p < 95 THEN "hit" ELSE IF p < 98 THEN "random" ELSE "failure"

\* the share of the draws p, in hundredths, on which measure takes branch b
BranchPercent(b) == Cardinality({p \in PDraws : MeasureBranch(p) = b})

\* LidarSensor.measure: the readings a branch can return
BranchReadings(b, max_range, expected_dist) ==
    IF b = "hit" THEN HitReadings(expected_dist)
    ELSE IF b = "random" THEN RandomReadings(max_range)
    ELSE {FailureReading(max_range)}

\* np.random.randint(0, max_range + 1): the integers it draws from, each one
\* as likely as the others
RandomSupport(max_range) == 0..max_range

\* the probability with which _random_measure returns the reading m, as the
\* fraction <<numerator, denominator>>
RandomLikelihood(max_range, m) ==
    IF m % Sub = 0 /\ (m \div Sub) \in RandomSupport(max_range)
    THEN <<1, Cardinality(RandomSupport(max_range))>>
    ELSE <<0, 1>>

\* random_prob = 0.03 * (1 / self._max_range) of lookup_prob, as a fraction
LookupRandomProb(max_range) == <<3, 100 * max_range>>

\* equality of two fractions
FracEq(a, b) == a[1] * b[2] = b[1] * a[2]

\* the expected distances passed: every half cell up to max_range
ExpectedDists(max_range) == {h * (Sub \div 2) : h \in 0..(2 * max_range)}

\* the readings passed to lookup_prob: from two cells below 0 to two cells
\* above max_range
MeasuredDists(max_range) == (-(2 * Sub))..((max_range + 2) * Sub)

SensorMeasure ==
    /\ sensor = Idle
    /\ \E max_range \in 1..SensorRange, p \in PDraws :
          \E expected \in ExpectedDists(max_range) :
              \E reading \in BranchReadings(MeasureBranch(p), max_range, expected) :
                  sensor' = [op |-> "measure", max_range |-> max_range, expected |-> expected,
                             branch |-> MeasureBranch(p), reading |-> reading,
                             prob |-> lookup_prob(max_range, expected, reading)]
    /\ UNCHANGED <<ray, prior, fusion, pf, kf, flow>>

SensorLookup ==
    /\ sensor = Idle
    /\ \E max_range \in 1..SensorRange :
          \E expected \in ExpectedDists(max_range), measured \in MeasuredDists(max_range) :
              sensor' = [op |-> "lookup_prob", max_range |-> max_range, expected |-> expected,
                         branch |-> "none", reading |-> measured,
                         prob |-> lookup_prob(max_range, expected, measured)]
    /\ UNCHANGED <<ray, prior, fusion, pf, kf, flow>>

SensorInit ==
    ray = Idle /\ prior = Idle /\ fusion = Idle /\ pf = Idle /\ sensor = Idle /\ kf = Idle /\ flow = Idle

SensorNext == SensorMeasure \/ SensorLookup

SpecSensor == SensorInit /\ [][SensorNext]_vars

(***************************************************************************)
(* The Kalman filter class KF of the exercise notebook, as it is defined:  *)
(* predict and update assign from the names mu_bar, sigma_bar, mu and      *)
(* sigma, which nothing binds, so each call ends with a NameError.         *)
(* kf = [op, arg, dt, r_t, q_t, mu, sigma, mu_bar, sigma_bar, den, raised,  *)
(*       returned]                                                         *)
(* A one-dimensional array is a tuple of numbers, a matrix a tuple of      *)
(* rows; the state is (velocity, position), a column being written as the  *)
(* tuple of its entries.  Standard deviations are in tenths, variances in  *)
(* hundredths.  The entries of mu, sigma, mu_bar and sigma_bar are the     *)
(* numerators of fractions whose denominators are den.mu, den.sigma,       *)
(* den.mu_bar and den.sigma_bar; arg is the argument of the last call.     *)
(***************************************************************************)
\* largest standard deviation and largest dt a filter is built with
MaxSigma == 2

\* the declared dimension of the state (velocity, position)
StateDim == 1 + 1

\* np.array([0.0]), the value of mu and sigma after __init__
Array1 == <<0>>

\* nothing returned: the call raised
NoValue == <<>>

\* KF.a
a(dt) == << <<1, 0>>, <<dt, 1>> >>

\* KF.b
b(dt) == << <<dt>>, <<0>> >>

\* KF.h_prime
h_prime == << <<0, 1>> >>

\* KF.__init__(sensor_sigma, velocity_sigma, position_sigma, dt)
KFNew(sensor_sigma, velocity_sigma, position_sigma, dt) ==
    [op |-> "init", arg |-> NoValue, dt |-> dt,
     r_t |-> << <<sensor_sigma * sensor_sigma>> >>,
     q_t |-> << <<velocity_sigma * velocity_sigma, 0>>,
                <<0, position_sigma * position_sigma>> >>,
     mu |-> Array1, sigma |-> Array1, mu_bar |-> Array1, sigma_bar |-> Array1,
     den |-> [mu |-> 1, sigma |-> 1, mu_bar |-> 1, sigma_bar |-> 1],
     raised |-> "none", returned |-> NoValue]

\* KF.initial_values(mu_0, sigma_0)
initial_values(self, mu_0, sigma_0) ==
    [self EXCEPT !.op = "initial_values", !.arg = <<mu_0, sigma_0>>,
                 !.mu = mu_0, !.sigma = sigma_0, !.den.mu = 1, !.den.sigma = 1,
                 !.raised = "none", !.returned = NoValue]

\* KF.predict(u): the read of mu_bar raises before anything is assigned
predict(self, u) ==
    [self EXCEPT !.op = "predict", !.arg = u, !.raised = "NameError", !.returned = NoValue]

\* KF.update(z): the read of mu raises before anything is assigned
update(self, z) ==
    [self EXCEPT !.op = "update", !.arg = z, !.raised = "NameError", !.returned = NoValue]

\* the scenario of the notebook in hundredths: mu_0 = [[1.0], [0.0]] and
\* measure = 1.01
ScenarioMean == <<100, 0>>
ScenarioMeasure == <<101, 1>>

\* the means passed to initial_values: columns of two entries, and an array
\* of another shape
KFMeans == {<<1, 0>>, <<0, 0>>, <<-1, 2>>, <<0>>, ScenarioMean}

\* the covariances passed to initial_values: the notebook's diagonal one, a
\* correlated one, and matrices that are no covariance (asymmetric, negative)
KFSigmas ==
    { << <<1, 0>>, <<0, 1>> >>, << <<2, 1>>, <<1, 1>> >>,
      << <<1, 1>>, <<0, 1>> >>, << <<-1, 0>>, <<0, 1>> >> }

\* the control inputs passed, and the observations, as fractions
KFControls == {0, 1}
KFObservations == {<<0, 1>>, <<1, 1>>, ScenarioMeasure}

KFInitialValues ==
    /\ \E mu_0 \in KFMeans, sigma_0 \in KFSigmas : kf' = initial_values(kf, mu_0, sigma_0)
    /\ UNCHANGED <<ray, prior, fusion, pf, sensor, flow>>

KFPredict ==
    /\ \E u \in KFControls : kf' = predict(kf, u)
    /\ UNCHANGED <<ray, prior, fusion, pf, sensor, flow>>

KFUpdate ==
    /\ \E z \in KFObservations : kf' = update(kf, z)
    /\ UNCHANGED <<ray, prior, fusion, pf, sensor, flow>>

KFInit ==
    /\ ray = Idle /\ prior = Idle /\ fusion = Idle /\ pf = Idle /\ sensor = Idle /\ flow = Idle
    /\ \E sensor_sigma \in 1..MaxSigma, velocity_sigma \in 0..MaxSigma,
          position_sigma \in 0..MaxSigma, dt \in 1..MaxSigma :
          kf = KFNew(sensor_sigma, velocity_sigma, position_sigma, dt)

KFNext == KFInitialValues \/ KFPredict \/ KFUpdate

SpecKF == KFInit /\ [][KFNext]_vars

(***************************************************************************)
(* Claims on ray casting.                                                  *)
(***************************************************************************)
\* the cells of the walk of the last get_distance call
LastRayCells == RayCells(ray.max_range, ray.x, ray.y, ray.angle)

\* the index, in the walk, of the first obstacle cell the walk meets before it
\* leaves the map; 0 when it meets none
FirstObstacle(m, cells) ==
    LET I == {i \in 1..Len(cells) :
                 /\ cells[i] \in m.occ
                 /\ \A j \in 1..i : inbounds(m, cells[j][1], cells[j][2])}
    IN  IF I = {} THEN 0 ELSE CHOOSE i \in I : \A j \in I : i <= j

\* C8: when the walk of get_distance meets obstacle cells inside the map, the
\* distance returned is the Euclidean distance from (x, y) to the first of them
\* on the walk, and loc is that cell; in the notebook's check (a ray from
\* (385, 450) at 45 degrees, first obstacle cell (435, 500)) it is 70.7.
C8_FirstObstacleDistance ==
    ray.op = "get_distance" =>
        \A cells \in {LastRayCells} : \A i \in {FirstObstacle(ray.m, cells)} :
            i > 0 =>
                /\ ray.out.hit
                /\ ray.out.err = "none"
                /\ ray.out.loc = cells[i]
                /\ ray.out.dist = ISqrt((ray.x - cells[i][1] * Sub) * (ray.x - cells[i][1] * Sub)
                                        + (ray.y - cells[i][2] * Sub) * (ray.y - cells[i][2] * Sub))
                /\ (ray.m = ScenarioMap => ray.out.loc = <<435, 500>> /\ ray.out.dist = 707)

\* a ray that has two obstacle cells on its walk, from a position inside a cell
C8_Witness ==
    /\ ray.op = "get_distance"
    /\ ray.x % Sub /= 0
    /\ ray.out.hit
    /\ \E i, j \in 1..Len(LastRayCells) :
          /\ i < j
          /\ LastRayCells[i] \in ray.m.occ
          /\ LastRayCells[j] \in ray.m.occ
          /\ inbounds(ray.m, LastRayCells[j][1], LastRayCells[j][2])
          /\ ray.out.loc = LastRayCells[i]

\* C9: when the walk leaves the map or reaches its end cell without having met
\* an obstacle cell, get_distance returns exactly max_range, with no error, also
\* when the origin cell is outside the map.
C9_OpenSpaceIsMaxRange ==
    ray.op = "get_distance" =>
        (FirstObstacle(ray.m, LastRayCells) = 0 =>
            /\ ray.out.err = "none"
            /\ ~ray.out.hit
            /\ ray.out.dist = ray.max_range * Sub)

\* a ray cast from a cell outside a map that has an obstacle
C9_Witness ==
    /\ ray.op = "get_distance"
    /\ ray.m.occ /= {}
    /\ ~inbounds(ray.m, Trunc(ray.x, Sub), Trunc(ray.y, Sub))
    /\ ray.out.err = "none"
    /\ ray.out.dist = ray.max_range * Sub

\* C10: shoot_rays returns exactly k distances; the i-th (i = 0..k-1) is the
\* get_distance result at the bearing heading + i*360/k degrees, reduced into
\* [0, 2*pi); ray 0 is cast along the heading.
C10_EvenlySpacedRays ==
    ray.op = "shoot_rays" =>
        /\ Len(ray.out) = ray.k
        /\ Len(ray.angles) = ray.k
        /\ \A i \in 0..(ray.k - 1) :
              /\ ray.angles[i + 1] \in 0..(FullTurn - 1)
              /\ \E turns \in (-2)..2 :
                    ray.angles[i + 1] = ray.state[3] + (i * FullTurn) \div ray.k - turns * FullTurn
              /\ ray.out[i + 1] =
                    get_distance(ray.m, ray.max_range, ray.state[1], ray.state[2],
                                 ray.angles[i + 1]).dist
        /\ \E turns \in (-1)..1 : ray.angles[1] = ray.state[3] - turns * FullTurn

\* eight rays from a negative heading, one of which meets an obstacle and one not
C10_Witness ==
    /\ ray.op = "shoot_rays"
    /\ ray.k = FullTurn
    /\ ray.state[3] < 0
    /\ \E i, j \in 1..Len(ray.out) :
          ray.out[i] < ray.max_range * Sub /\ ray.out[j] = ray.max_range * Sub

(***************************************************************************)
(* Claims on sample_from_prior.                                            *)
(***************************************************************************)
\* C5: sample_from_prior returns exactly N particles, and the cell
\* (int(x), int(y)) of each is inside the map passed as argument and is not
\* an obstacle cell of it.
C5_SamplesValid ==
    prior.pc = "returned" =>
        /\ Len(prior.samples) = prior.N
        /\ \A i \in 1..Len(prior.samples) :
              LET cx == Trunc(prior.samples[i][1], Sub)
                  cy == Trunc(prior.samples[i][2], Sub)
              IN  /\ 0 <= cx /\ cx < prior.grid_map.w
                  /\ 0 <= cy /\ cy < prior.grid_map.h
                  /\ <<cx, cy>> \notin prior.grid_map.occ

\* MaxN particles accepted on a map with obstacles, drawn over a larger global grid
C5_Witness ==
    /\ prior.pc = "returned"
    /\ prior.N = MaxN
    /\ Len(prior.samples) = MaxN
    /\ prior.grid_map.occ /= {}
    /\ prior.grid.w > prior.grid_map.w

HasFreeCell(m) == Cells(m) \ m.occ /= {}

\* C6: on a map without a free cell sample_from_prior (asked for at least one
\* particle, the map passed being the notebook's global grid) fails with a
\* configuration error instead of looping for ever.
C6_FailsFast ==
    (~HasFreeCell(prior.grid_map) /\ prior.N > 0 /\ prior.grid = prior.grid_map)
        => <>(prior.pc = "failed")

\* C7: on a map with a free cell the loop accepts N particles and returns,
\* provided every cell of the map is drawn infinitely often (a run in which
\* the loop returns satisfies the claim whatever was drawn).
C7_Terminates ==
    (\A c \in (0..(PriorMapSize - 1)) \X (0..(PriorMapSize - 1)) :
        []<><<PriorDraw(c)>>_vars)
    => (HasFreeCell(prior.grid_map) => <>(prior.pc = "returned"))

\* the loop has returned MaxN particles on a map that has obstacle cells
C7_Witness ==
    /\ prior.pc = "returned"
    /\ prior.N = MaxN
    /\ Len(prior.samples) = MaxN
    /\ prior.grid_map.occ /= {}
    /\ prior.spin = 1


(***************************************************************************)
(* Claims on sensor_fusion.                                                *)
(***************************************************************************)
\* the unnormalised weights of the call made in the weighting step
FusedImportances ==
    Importances(fusion.m, fusion.max_range, fusion.samples, fusion.measured)

\* C2: sensor_fusion ends with an error when the sum of the unnormalised
\* weights is zero, and a vector it returns has no NaN and no infinite entry.
C2_DegenerateIsReported ==
    fusion.pc = "fused" =>
        /\ SumSeq(FusedImportances) = 0 => fusion.out.raised /= "none"
        /\ fusion.out.raised = "none" =>
              \A i \in 1..Len(fusion.out.weights) :
                  ~IsNaN(fusion.out.weights[i]) /\ ~IsInf(fusion.out.weights[i])

C1_CyclesInOrder ==
    pf.pc = "returned" => pf.out.steps = CycleSteps(pf.n_timesteps)

GaussianTerm(expected, measured) == (95 * NormPdf(measured - expected)) \div 100

\* the failure term of the mixture: 0.02 at max_range exactly
FailureTerm(max_range, measured) ==
    IF measured = max_range * Sub THEN (2 * One) \div 100 ELSE 0

C12_LookupIsLikelihoodOfMeasure ==
    sensor.op = "measure" =>
        FracEq(LookupRandomProb(sensor.max_range),
               <<BranchPercent("random") * RandomLikelihood(sensor.max_range, sensor.reading)[1],
                 100 * RandomLikelihood(sensor.max_range, sensor.reading)[2]>>)

\* C15: a reading equal to max_range scores at least 0.02, and the 0.02 is
\* added for no other reading.
C15_FailureFloor ==
    sensor.op = "lookup_prob" =>
        /\ sensor.reading = sensor.max_range * Sub => sensor.prob >= (2 * One) \div 100
        /\ sensor.reading /= sensor.max_range * Sub =>
              sensor.prob = GaussianTerm(sensor.expected, sensor.reading)
                            + (3 * One) \div (100 * sensor.max_range)

\* a reading of max_range has been scored against an expected distance far
\* from it, and the score is the floor and the random term alone
C15_Witness ==
    /\ sensor.op = "lookup_prob"
    /\ sensor.reading = sensor.max_range * Sub
    /\ sensor.expected = 0
    /\ sensor.max_range = SensorRange
    /\ sensor.prob < 2 * ((2 * One) \div 100)

(***************************************************************************)
(* Claims on importance and on the ranking of the weights.                 *)
(***************************************************************************)
\* the expected distances of the i-th sample of the weighting step, one per
\* measured distance
FusedExpected(i) ==
    Dists(shoot_rays(fusion.m, fusion.max_range, fusion.samples[i], Len(fusion.measured)))

\* the product of lookup_prob(expected[j], measured[j]) over j = 1..n
RECURSIVE ProductUpTo(_, _, _, _)
ProductUpTo(max_range, expected, measured, n) ==
    IF n = 0 THEN One
    ELSE FMul(ProductUpTo(max_range, expected, measured, n - 1),
              lookup_prob(max_range, expected[n], measured[n]))

\* C13: the importance of a state is the product, over the k measured
\* distances, of lookup_prob of the i-th expected and the i-th measured
\* distance, k rays being cast; it is 1 for no measurement.
C13_ImportanceIsProduct ==
    fusion.pc = "fused" =>
        \A i \in 1..Len(fusion.samples) :
            /\ Len(FusedExpected(i)) = Len(fusion.measured)
            /\ importance(fusion.m, fusion.max_range, fusion.samples[i], fusion.measured)
                  = ProductUpTo(fusion.max_range, FusedExpected(i), fusion.measured,
                                Len(fusion.measured))
            /\ fusion.measured = <<>> =>
                  importance(fusion.m, fusion.max_range, fusion.samples[i], fusion.measured) = One

\* a sample has been weighted on two different readings against two different
\* expected distances
C13_Witness ==
    /\ fusion.pc = "fused"
    /\ Len(fusion.measured) = 2
    /\ fusion.measured[1] /= fusion.measured[2]
    /\ Len(fusion.samples) >= 1
    /\ FusedExpected(1)[1] /= FusedExpected(1)[2]
    /\ FusedImportances[1] > 0

\* the empty measurement vector has been weighted
C13_WitnessEmpty ==
    fusion.pc = "fused" /\ fusion.measured = <<>> /\ Len(fusion.samples) >= 1

Mat2Mul(X, Y) ==
    [i \in 1..2 |-> [j \in 1..2 |-> X[i][1] * Y[1][j] + X[i][2] * Y[2][j]]]
Mat2T(X) == [i \in 1..2 |-> [j \in 1..2 |-> X[j][i]]]
Mat2Add(X, Y) == [i \in 1..2 |-> [j \in 1..2 |-> X[i][j] + Y[i][j]]]
Mat2Scale(k, X) == [i \in 1..2 |-> [j \in 1..2 |-> k * X[i][j]]]

\* mean_bar = A * mu + B * u, over the denominator of mu
PredictedMean(dt, mu, den, u) ==
    << a(dt)[1][1] * mu[1] + a(dt)[1][2] * mu[2] + b(dt)[1][1] * u * den,
       a(dt)[2][1] * mu[1] + a(dt)[2][2] * mu[2] + b(dt)[2][1] * u * den >>

\* sigma_bar = A * sigma * A^T + Q, over the denominator of sigma
PredictedSigma(dt, sigma, den, q_t) ==
    Mat2Add(Mat2Mul(Mat2Mul(a(dt), sigma), Mat2T(a(dt))), Mat2Scale(den, q_t))

\* S = H * sigma_bar * H^T + R, over the denominator of sigma_bar
InnovationCov(sigma_bar, den, r_t) == sigma_bar[2][2] + r_t[1][1] * den

\* a mean of the declared dimension
IsMean(mu) == Len(mu) = StateDim

\* a 2 x 2 matrix that is symmetric and positive-semidefinite
IsCovariance(sigma) ==
    /\ Len(sigma) = StateDim
    /\ \A i \in 1..StateDim : Len(sigma[i]) = StateDim
    /\ sigma[1][2] = sigma[2][1]
    /\ sigma[1][1] >= 0 /\ sigma[2][2] >= 0
    /\ sigma[1][1] * sigma[2][2] - sigma[1][2] * sigma[2][1] >= 0

\* C16: predict(u) returns and stores mean_bar = A*mu + B*u and
\* sigma_bar = A*sigma*A^T + Q, also for u = 0.
C16_PredictComputes ==
    kf.op = "predict" =>
        /\ kf.raised = "none"
        /\ kf.mu_bar = PredictedMean(kf.dt, kf.mu, kf.den.mu, kf.arg)
        /\ kf.sigma_bar = PredictedSigma(kf.dt, kf.sigma, kf.den.sigma, kf.q_t)
        /\ kf.den.mu_bar = kf.den.mu /\ kf.den.sigma_bar = kf.den.sigma
        /\ kf.returned = <<kf.mu_bar, kf.sigma_bar>>

\* C17: update(z) returns and stores mu = mu_bar + K*(z - H*mu_bar) and
\* sigma = (I - K*H)*sigma_bar, K = sigma_bar*H^T / S, S = H*sigma_bar*H^T + R.
C17_UpdateComputes ==
    kf.op = "update" =>
        /\ kf.raised = "none"
        /\ LET S == InnovationCov(kf.sigma_bar, kf.den.sigma_bar, kf.r_t)
               zn == kf.arg[1]
               zd == kf.arg[2]
               y == zn * kf.den.mu_bar - kf.mu_bar[2] * zd
           IN  /\ kf.den.mu = kf.den.mu_bar * S * zd
               /\ kf.mu = [i \in 1..2 |-> kf.mu_bar[i] * S * zd + kf.sigma_bar[i][2] * y]
               /\ kf.den.sigma = kf.den.sigma_bar * S
               /\ kf.sigma = [i \in 1..2 |-> [j \in 1..2 |->
                                 kf.sigma_bar[i][j] * S
                                 - kf.sigma_bar[i][2] * kf.sigma_bar[2][j]]]
        /\ kf.returned = <<kf.mu, kf.sigma>>

\* C18: after every operation the held means have the declared dimension and
\* the held covariances are 2 x 2, symmetric and positive-semidefinite.
C18_BeliefWellFormed ==
    /\ IsMean(kf.mu) /\ IsCovariance(kf.sigma)
    /\ IsMean(kf.mu_bar) /\ IsCovariance(kf.sigma_bar)

(***************************************************************************)
(* The predict / update cycle the exercise asks for: the notebook leaves   *)
(* both bodies to write, so they are taken from the equations of the       *)
(* lesson.  kf is the record of KF with two more fields: n, the number of  *)
(* calls made, and prev, the operation before the last one.  Fractions are *)
(* exact: a call multiplies denominators and never rounds.                 *)
(***************************************************************************)
\* largest number of predict and update calls of a run
KalmanOps == 3

\* predict that also moves the corrected mean to the predicted one
KalmanPredictWritesMu(self, u) ==
    LET mu_bar == PredictedMean(self.dt, self.mu, self.den.mu, u)
        sigma_bar == PredictedSigma(self.dt, self.sigma, self.den.sigma, self.q_t)
    IN  [self EXCEPT !.op = "predict", !.arg = u, !.mu = mu_bar,
                     !.mu_bar = mu_bar, !.sigma_bar = sigma_bar,
                     !.den.mu_bar = self.den.mu, !.den.sigma_bar = self.den.sigma,
                     !.raised = "none", !.returned = <<mu_bar, sigma_bar>>]

\* predict(u): mu_bar = A*mu + B*u, sigma_bar = A*sigma*A^T + Q
kalman_predict(self, u) ==
    LET mu_bar == PredictedMean(self.dt, self.mu, self.den.mu, u)
        sigma_bar == PredictedSigma(self.dt, self.sigma, self.den.sigma, self.q_t)
    IN  [self EXCEPT !.op = "predict", !.arg = u,
                     !.mu_bar = mu_bar, !.sigma_bar = sigma_bar,
                     !.den.mu_bar = self.den.mu, !.den.sigma_bar = self.den.sigma,
                     !.raised = "none", !.returned = <<mu_bar, sigma_bar>>]

\* update with the covariance corrected as (I + K*H)*sigma_bar
KalmanUpdateInflating(self, z) ==
    LET S == InnovationCov(self.sigma_bar, self.den.sigma_bar, self.r_t)
        y == z[1] * self.den.mu_bar - self.mu_bar[2] * z[2]
        mu == [i \in 1..2 |-> self.mu_bar[i] * S * z[2] + self.sigma_bar[i][2] * y]
        sigma == [i \in 1..2 |-> [j \in 1..2 |->
                     self.sigma_bar[i][j] * S + self.sigma_bar[i][2] * self.sigma_bar[2][j]]]
    IN  IF S = 0
        THEN [self EXCEPT !.op = "update", !.arg = z, !.raised = "singular",
                          !.returned = NoValue]
        ELSE [self EXCEPT !.op = "update", !.arg = z, !.mu = mu, !.sigma = sigma,
                          !.den.mu = self.den.mu_bar * S * z[2],
                          !.den.sigma = self.den.sigma_bar * S,
                          !.raised = "none", !.returned = <<mu, sigma>>]

\* update with the innovation taken on the velocity, z - mu_bar[1]
KalmanUpdateOnVelocity(self, z) ==
    LET S == InnovationCov(self.sigma_bar, self.den.sigma_bar, self.r_t)
        y == z[1] * self.den.mu_bar - self.mu_bar[1] * z[2]
        mu == [i \in 1..2 |-> self.mu_bar[i] * S * z[2] + self.sigma_bar[i][2] * y]
        sigma == [i \in 1..2 |-> [j \in 1..2 |->
                     self.sigma_bar[i][j] * S - self.sigma_bar[i][2] * self.sigma_bar[2][j]]]
    IN  IF S = 0
        THEN [self EXCEPT !.op = "update", !.arg = z, !.raised = "singular",
                          !.returned = NoValue]
        ELSE [self EXCEPT !.op = "update", !.arg = z, !.mu = mu, !.sigma = sigma,
                          !.den.mu = self.den.mu_bar * S * z[2],
                          !.den.sigma = self.den.sigma_bar * S,
                          !.raised = "none", !.returned = <<mu, sigma>>]

\* update with the gain taken as 1: the corrected position is the observation
KalmanUpdateFullGain(self, z) ==
    LET S == InnovationCov(self.sigma_bar, self.den.sigma_bar, self.r_t)
        y == z[1] * self.den.mu_bar - self.mu_bar[2] * z[2]
        mu == [i \in 1..2 |-> self.mu_bar[i] * S * z[2] + S * y]
        sigma == [i \in 1..2 |-> [j \in 1..2 |->
                     self.sigma_bar[i][j] * S - self.sigma_bar[i][2] * self.sigma_bar[2][j]]]
    IN  IF S = 0
        THEN [self EXCEPT !.op = "update", !.arg = z, !.raised = "singular",
                          !.returned = NoValue]
        ELSE [self EXCEPT !.op = "update", !.arg = z, !.mu = mu, !.sigma = sigma,
                          !.den.mu = self.den.mu_bar * S * z[2],
                          !.den.sigma = self.den.sigma_bar * S,
                          !.raised = "none", !.returned = <<mu, sigma>>]

\* update that writes the belief before it finds S singular
KalmanUpdateWritesFirst(self, z) ==
    LET S == InnovationCov(self.sigma_bar, self.den.sigma_bar, self.r_t)
        y == z[1] * self.den.mu_bar - self.mu_bar[2] * z[2]
        mu == [i \in 1..2 |-> self.mu_bar[i] * S * z[2] + self.sigma_bar[i][2] * y]
        sigma == [i \in 1..2 |-> [j \in 1..2 |->
                     self.sigma_bar[i][j] * S - self.sigma_bar[i][2] * self.sigma_bar[2][j]]]
    IN  IF S = 0
        THEN [self EXCEPT !.op = "update", !.arg = z, !.mu = self.mu_bar,
                          !.raised = "singular", !.returned = NoValue]
        ELSE [self EXCEPT !.op = "update", !.arg = z, !.mu = mu, !.sigma = sigma,
                          !.den.mu = self.den.mu_bar * S * z[2],
                          !.den.sigma = self.den.sigma_bar * S,
                          !.raised = "none", !.returned = <<mu, sigma>>]

\* update(z), z the fraction <<numerator, denominator>>: with H = [0, 1],
\* S = H*sigma_bar*H^T + R and K = sigma_bar*H^T / S,
\* mu = mu_bar + K*(z - H*mu_bar) and sigma = (I - K*H)*sigma_bar;
\* a singular S is an error that leaves the belief as it was
kalman_update(self, z) ==
    LET S == InnovationCov(self.sigma_bar, self.den.sigma_bar, self.r_t)
        y == z[1] * self.den.mu_bar - self.mu_bar[2] * z[2]
        mu == [i \in 1..2 |-> self.mu_bar[i] * S * z[2] + self.sigma_bar[i][2] * y]
        sigma == [i \in 1..2 |-> [j \in 1..2 |->
                     self.sigma_bar[i][j] * S - self.sigma_bar[i][2] * self.sigma_bar[2][j]]]
    IN  IF S = 0
        THEN [self EXCEPT !.op = "update", !.arg = z, !.raised = "singular",
                          !.returned = NoValue]
        ELSE [self EXCEPT !.op = "update", !.arg = z, !.mu = mu, !.sigma = sigma,
                          !.den.mu = self.den.mu_bar * S * z[2],
                          !.den.sigma = self.den.sigma_bar * S,
                          !.raised = "none", !.returned = <<mu, sigma>>]

\* the beliefs a run starts from: means of the declared dimension and
\* covariances, the zero matrix among them
KalmanMeans == {mu \in KFMeans : IsMean(mu)}
KalmanSigmas == {sigma \in KFSigmas : IsCovariance(sigma)} \cup {<< <<0, 0>>, <<0, 0>> >>}

\* the observations of a run: the predicted position H*mu_bar itself, or a
\* whole number
KalmanObservations(self) == {<<self.mu_bar[2], self.den.mu_bar>>} \cup KFObservations

KalmanPredict ==
    /\ kf.n < KalmanOps
    /\ \E u \in KFControls :
          kf' = [kalman_predict(kf, u) EXCEPT !.n = kf.n + 1, !.prev = kf.op]
    /\ UNCHANGED <<ray, prior, fusion, pf, sensor, flow>>

KalmanUpdate ==
    /\ kf.n < KalmanOps
    /\ kf.op \in {"predict", "update"}
    /\ \E z \in KalmanObservations(kf) :
          kf' = [kalman_update(kf, z) EXCEPT !.n = kf.n + 1, !.prev = kf.op]
    /\ UNCHANGED <<ray, prior, fusion, pf, sensor, flow>>

KalmanInit ==
    /\ ray = Idle /\ prior = Idle /\ fusion = Idle /\ pf = Idle /\ sensor = Idle /\ flow = Idle
    /\ \E sensor_sigma \in 0..2, velocity_sigma \in 0..1, position_sigma \in 0..1,
          dt \in 1..2, mu_0 \in KalmanMeans, sigma_0 \in KalmanSigmas :
          kf = initial_values(KFNew(sensor_sigma, velocity_sigma, position_sigma, dt),
                              mu_0, sigma_0) @@ [n |-> 0, prev |-> "init"]

KalmanNext == KalmanPredict \/ KalmanUpdate

SpecKalman == KalmanInit /\ [][KalmanNext]_vars

\* the trace of a 2 x 2 matrix
Trace(sigma) == sigma[1][1] + sigma[2][2]

FracLt(x, y) == x[1] * y[2] < y[1] * x[2]

\* the predicted and the corrected position mean and variance, as fractions
PositionBar == <<kf.mu_bar[2], kf.den.mu_bar>>
Position == <<kf.mu[2], kf.den.mu>>
PositionVarBar == <<kf.sigma_bar[2][2], kf.den.sigma_bar>>
PositionVar == <<kf.sigma[2][2], kf.den.sigma>>

\* an update right after a predict, with R > 0 and an observation that is not
\* the predicted position
CorrectingUpdate ==
    /\ kf.op = "update" /\ kf.prev = "predict" /\ kf.raised = "none"
    /\ kf.r_t[1][1] > 0
    /\ ~FracEq(kf.arg, PositionBar)

\* the corrected position lies strictly between the predicted position and
\* the observation, and its variance is strictly below the predicted one
StrictlyCorrected ==
    /\ \/ FracLt(PositionBar, Position) /\ FracLt(Position, kf.arg)
       \/ FracLt(kf.arg, Position) /\ FracLt(Position, PositionBar)
    /\ FracLt(PositionVar, PositionVarBar)

C24_AnyOrderCompletes ==
    (kf.op \in {"predict", "update"} /\ IsMean(kf.mu) /\ IsCovariance(kf.sigma)) =>
        /\ kf.raised = "none"
        /\ IsMean(kf.mu_bar) /\ IsCovariance(kf.sigma_bar)
        /\ kf.returned /= NoValue

RECURSIVE SumCoord(_, _, _)
SumCoord(samples, c, n) ==
    IF n = 0 THEN 0 ELSE SumCoord(samples, c, n - 1) + samples[n][c]

\* the squared distance of the centroid of the samples to the position of
\* state, times the square of the number of samples
CentroidErr2(samples, state) ==
    LET N == Len(samples)
        dx == SumCoord(samples, 1, N) - N * state[1]
        dy == SumCoord(samples, 2, N) - N * state[2]
    IN  dx * dx + dy * dy

\* C23: a call of particle_filter over one timestep or more returns particles
\* whose centroid is within 3 cells of the returned ground truth, at a
\* distance other than the one of the particles and ground truth passed in.
C23_CentroidConverges ==
    (pf.pc = "returned" /\ pf.n_timesteps >= 1 /\ pf.samples /= <<>>) =>
        LET N == Len(pf.out.samples)
        IN  /\ N = Len(pf.samples)
            /\ CentroidErr2(pf.out.samples, pf.out.ground_truth_state)
                  <= (3 * Sub * N) * (3 * Sub * N)
            /\ CentroidErr2(pf.out.samples, pf.out.ground_truth_state)
                  /= CentroidErr2(pf.samples, pf.ground_truth_state)

\* C29: a call of particle_filter leaves the caller's particles, the caller's
\* ground truth and the map as they were.
C29_CallerArraysUnchanged ==
    [][/\ pf'.samples = pf.samples
       /\ pf'.ground_truth_state = pf.ground_truth_state
       /\ pf'.m = pf.m]_vars

\* a call over two particles and one timestep or more has returned its copies
C29_Witness ==
    /\ pf.pc = "returned" /\ pf.n_timesteps >= 1
    /\ Len(pf.samples) >= 2
    /\ pf.out.samples = pf.samples
    /\ pf.out.ground_truth_state = pf.ground_truth_state

(***************************************************************************)
(* Claims on the order of the samples and on the sign of the weights.      *)
(***************************************************************************)
\* the permutations of 1..n, as functions
OrdersOf(n) == {f \in [1..n -> 1..n] : \A i, j \in 1..n : f[i] = f[j] => i = j}

\* the list q taken in the order f
Permuted(q, f) == [i \in 1..Len(q) |-> q[f[i]]]

RECURSIVE ExactProductUpTo(_, _, _, _)
ExactProductUpTo(max_range, expected, measured, n) ==
    IF n = 0 THEN 1
    ELSE ExactProductUpTo(max_range, expected, measured, n - 1)
         * lookup_prob(max_range, expected[n], measured[n])

\* C27 (in exact arithmetic): every factor lookup_prob of a weighted sample is
\* at least 0.03 / max_range > 0, so the product of the factors without
\* rounding is positive; the value importance returns is not negative.
C27_FactorsPositive ==
    fusion.pc = "fused" =>
        \A i \in 1..Len(fusion.samples) :
            /\ \A j \in 1..Len(fusion.measured) :
                  /\ lookup_prob(fusion.max_range, FusedExpected(i)[j], fusion.measured[j])
                        >= (3 * One) \div (100 * fusion.max_range)
                  /\ (3 * One) \div (100 * fusion.max_range) > 0
            /\ ExactProductUpTo(fusion.max_range, FusedExpected(i), fusion.measured,
                                Len(fusion.measured)) > 0
            /\ FusedImportances[i] >= 0

\* C27 as stated: importance returns a positive value for every sample, so
\* the sum of the unnormalised weights of a non-empty set is positive.
C27_ImportancePositive ==
    (fusion.pc = "fused" /\ fusion.samples /= <<>>) =>
        /\ \A i \in 1..Len(fusion.samples) : FusedImportances[i] > 0
        /\ SumSeq(FusedImportances) > 0

\* a sample far from both readings has been weighted: its factors are the
\* random term alone, their exact product is positive and the product
\* importance returns is 0
C27_Witness ==
    /\ fusion.pc = "fused"
    /\ Len(fusion.samples) >= 1 /\ Len(fusion.measured) = 2
    /\ \A j \in 1..2 :
          lookup_prob(fusion.max_range, FusedExpected(1)[j], fusion.measured[j])
             = (3 * One) \div (100 * fusion.max_range)
    /\ ExactProductUpTo(fusion.max_range, FusedExpected(1), fusion.measured, 2) > 0
    /\ FusedImportances[1] = 0

(***************************************************************************)
(* Claims on the range of the distances.                                   *)
(***************************************************************************)
\* C28 (as the code has it): get_distance returns max_range when it meets no
\* obstacle, and the distance of an obstacle cell it meets is less than
\* max_range + sqrt(2): at least 0 and at most max_range plus 1.4 cells.
C28_DistanceWithinRangePlusCell ==
    /\ ray.op = "get_distance" =>
          /\ ray.out.dist >= 0
          /\ ray.out.dist <= ray.max_range * Sub + (14 * Sub) \div 10
          /\ ~ray.out.hit => ray.out.dist = ray.max_range * Sub
    /\ ray.op = "shoot_rays" =>
          \A i \in 1..Len(ray.out) :
              ray.out[i] >= 0 /\ ray.out[i] <= ray.max_range * Sub + (14 * Sub) \div 10

\* C28 as stated: every distance of get_distance and of shoot_rays is in
\* [0, max_range].
C28_DistanceWithinRange ==
    /\ ray.op = "get_distance" =>
          ray.out.dist >= 0 /\ ray.out.dist <= ray.max_range * Sub
    /\ ray.op = "shoot_rays" =>
          \A i \in 1..Len(ray.out) : ray.out[i] >= 0 /\ ray.out[i] <= ray.max_range * Sub

\* an obstacle cell inside the map, met on the walk, has been reported at more
\* than max_range
C28_Witness ==
    /\ ray.op = "get_distance"
    /\ ray.out.hit /\ ray.out.err = "none"
    /\ inbounds(ray.m, ray.out.loc[1], ray.out.loc[2])
    /\ ray.out.dist > ray.max_range * Sub

(***************************************************************************)
(* The tracking loop of the optical flow notebook.  A frame is its index   *)
(* in the reader; corners are known by the frame their positions are in    *)
(* and by the function that produced them.                                 *)
(* flow = [pc, length, detect_interval, i, frame0, corners0, frames, calls]*)
(***************************************************************************)
\* largest reader.get_length()
MaxFrames == 8
\* largest detect_interval passed to track
MaxInterval == 3
\* the default of detect_interval
DefaultInterval == 5

\* shi_tomasi(img): the corners detected on img
shi_tomasi(img) == [frame |-> img, by |-> "shi_tomasi"]

\* optical_flow(frame0, frame1, corners0): the positions of corners0 found in
\* frame1 (cv.calcOpticalFlowPyrLK, the line the notebook leaves to write)
optical_flow(frame0, frame1, corners0) == [frame |-> frame1, by |-> "optical_flow"]

\* track up to the for loop: frame0 is frame 0 and the corners are detected
\* on it
TrackBegin ==
    /\ flow.pc = "start"
    /\ flow' = [flow EXCEPT !.pc = "loop", !.i = 1, !.frame0 = 0,
                            !.corners0 = shi_tomasi(0), !.frames = <<>>]
    /\ UNCHANGED <<ray, prior, fusion, pf, sensor, kf>>

\* one pass of the body of the for loop, for i in range(1, get_length())
TrackIteration ==
    /\ flow.pc = "loop"
    /\ flow.i < flow.length
    /\ LET frame1 == flow.i
           corners1 == optical_flow(flow.frame0, frame1, flow.corners0)
       IN  flow' = [flow EXCEPT
                       !.calls = Append(@, [frame0 |-> flow.frame0, frame1 |-> frame1,
                                            corners0 |-> flow.corners0]),
                       !.corners0 = IF flow.i % flow.detect_interval = 0
                                    THEN shi_tomasi(flow.frame0)
                                    ELSE corners1,
                       !.frame0 = frame1,
                       !.frames = Append(@, frame1),
                       !.i = flow.i + 1]
    /\ UNCHANGED <<ray, prior, fusion, pf, sensor, kf>>

\* the range is exhausted: return frames
TrackReturn ==
    /\ flow.pc = "loop"
    /\ flow.i >= flow.length
    /\ flow' = [flow EXCEPT !.pc = "returned"]
    /\ UNCHANGED <<ray, prior, fusion, pf, sensor, kf>>

TrackInit ==
    /\ ray = Idle /\ prior = Idle /\ fusion = Idle /\ pf = Idle /\ sensor = Idle /\ kf = Idle
    /\ \E length \in 1..MaxFrames, detect_interval \in (1..MaxInterval) \cup {DefaultInterval} :
          flow = [pc |-> "start", length |-> length, detect_interval |-> detect_interval,
                  i |-> 0, frame0 |-> 0, corners0 |-> None, frames |-> <<>>, calls |-> <<>>]

TrackNext == TrackBegin \/ TrackIteration \/ TrackReturn

SpecTrack == TrackInit /\ [][TrackNext]_vars

\* C30: every call optical_flow(frame0, frame1, corners0) of track is given
\* corners whose positions are in frame0; after the pass i of the loop, a pass
\* with i % detect_interval = 0 included, the corners kept for the next pass
\* are those of frame i, its frame0; and track returns get_length() - 1
\* frames.
C30_CornersBelongToFrame0 ==
    /\ \A k \in 1..Len(flow.calls) : flow.calls[k].corners0.frame = flow.calls[k].frame0
    /\ flow.pc = "loop" => flow.corners0.frame = flow.frame0
    /\ flow.pc = "returned" => Len(flow.frames) = flow.length - 1

====
